---- MODULE Spec2Model ----
(***************************************************************************)
(* Model of tpn-connect (src/index.cjs): the session lifecycle of main(),  *)
(* from the command line options to process exit, with the tunnel driver   *)
(* (wg-quick), the validator HTTP calls, the countdown timer and the       *)
(* terminal key handler as events of one Node.js event loop.               *)
(*                                                                         *)
(* Text values that the code converts (toUpperCase, parseInt, the SSID     *)
(* regular expression) are sequences of one-character strings.  Country    *)
(* codes and IP addresses are only compared for equality and are atomic    *)
(* strings.                                                                *)
(***************************************************************************)
EXTENDS Integers, Sequences, FiniteSets, Bags, TLC

VARIABLES
    options,            \* program.opts(): validator, region, time, quiet
    env,                \* the world the run meets: catalog reply, public IP, WiFi scan, platform
    pc,                 \* position of main()
    selectedValidator,
    availableRegions,
    selectedRegion,
    leaseTime,
    wifiSecurity,
    locationSecurity,
    configWritten,      \* the config artifact exists at cfgPath
    connectionStats,    \* totalConnections, totalTime, countriesVisited
    totalSeconds,
    elapsed,
    timerActive,        \* setInterval armed and not cleared
    inputGrabbed,       \* termKit.grabInput() in force
    keys,               \* key presses handled so far
    cmds,               \* bag of asynchronous operations in flight
    tunnelUp,           \* the WireGuard interface of cfgPath exists
    netLog,             \* HTTP requests issued, in order
    driverLog,          \* driver commands issued, in order
    shown,              \* connection status last put on the terminal
    exitCode,
    exitVia             \* what called process.exit

vars == <<options, env, pc, selectedValidator, availableRegions, selectedRegion,
          leaseTime, wifiSecurity, locationSecurity, configWritten,
          connectionStats, totalSeconds, elapsed, timerActive, inputGrabbed,
          keys, cmds, tunnelUp, netLog, driverLog, shown, exitCode, exitVia>>

-----------------------------------------------------------------------------
(* Bounds of the model *)

\* Longest region catalog a validator replies with.
MaxCatalog == 3

\* Number of key presses handled in one session.
MaxKeys == 2

\* Number of current WiFi connections a scan reports.
MaxConnections == 1

\* Number of timer ticks explored in one session: one more than the seconds
\* of a one-minute lease, so that a tick past the expiry is not cut off here.
MaxTicks == 61

-----------------------------------------------------------------------------
(* Values *)

Range(s) == {s[i] : i \in DOMAIN s}

Undefined == "undefined"

\* An option that was not given.  An empty argument is as falsy as a missing
\* one at the tests of lines 325 and 383.
Absent == <<>>

Truthy(s) == s # Absent

NaN == [nan |-> TRUE, n |-> 0]

Num(k) == [nan |-> FALSE, n |-> k]

isNaN(v) == v.nan

RISK_LEVELS == [HIGH |-> "HIGH", MEDIUM |-> "MEDIUM", LOW |-> "LOW", SAFE |-> "SAFE"]

HIGH_RISK_COUNTRIES == <<"CN", "RU", "IR", "SA", "VN", "CU">>

FallbackRegions == <<"US", "GB", "DE", "FR", "JP">>

\* validators.json is data outside the sources; two entries stand for it.
Validators == <<[UID |-> <<"1">>], [UID |-> <<"4">>]>>

DefaultLeaseMinutes == 30

SecondsPerMinute == 60

-----------------------------------------------------------------------------
(* String.prototype.toUpperCase on the letters the inputs are written in *)

UpperChar(c) ==
    CASE c = "a" -> "A"
      [] c = "e" -> "E"
      [] c = "i" -> "I"
      [] c = "s" -> "S"
      [] c = "u" -> "U"
      [] c = "x" -> "X"
      [] OTHER -> c

toUpperCase(s) == [i \in DOMAIN s |-> UpperChar(s[i])]

(* parseInt(string) in radix 10: an optional sign, then the longest run of *)
(* decimal digits; NaN when there is no digit.  The inputs carry no        *)
(* leading white space and no 0x prefix.                                   *)

DigitChars == {"0", "1", "2", "3", "4", "5", "6", "7", "8", "9"}

DigitVal(c) ==
    CASE c = "0" -> 0 [] c = "1" -> 1 [] c = "2" -> 2 [] c = "3" -> 3
      [] c = "4" -> 4 [] c = "5" -> 5 [] c = "6" -> 6 [] c = "7" -> 7
      [] c = "8" -> 8 [] c = "9" -> 9

RECURSIVE DigitRun(_, _)
\* Number of leading digits of s from position i on.
DigitRun(s, i) ==
    IF i > Len(s) \/ s[i] \notin DigitChars THEN 0 ELSE 1 + DigitRun(s, i + 1)

RECURSIVE DigitsValue(_, _, _)
\* Value of the k digits of s that end at position i + k - 1.
DigitsValue(s, i, k) ==
    IF k = 0 THEN 0
    ELSE 10 * DigitsValue(s, i, k - 1) + DigitVal(s[i + k - 1])

parseInt(s) ==
    LET signed == Len(s) > 0 /\ s[1] \in {"-", "+"}
        start == IF signed THEN 2 ELSE 1
        k == DigitRun(s, start)
        mag == DigitsValue(s, start, k)
    IN  IF k = 0 THEN NaN
        ELSE IF signed /\ s[1] = "-" THEN Num(0 - mag) ELSE Num(mag)

-----------------------------------------------------------------------------
(* Region buckets, lines 386-415 *)

RegionCodes == {<<"U", "S">>, <<"E", "U">>, <<"A", "S", "I", "A">>}

regionCountries(code) ==
    CASE code = <<"U", "S">> -> <<"US", "CA">>
      [] code = <<"E", "U">> -> <<"DE", "FR", "GB", "IT", "ES">>
      [] code = <<"A", "S", "I", "A">> -> <<"JP", "KR", "SG", "IN">>

\* regionCountries[regionCode].filter(code => availableRegions.includes(code))
possibleCountries(code, catalog) ==
    SelectSeq(regionCountries(code), LAMBDA c : c \in Range(catalog))

\* array[1] in the place of array[0]
FirstOneBased(s) == IF Len(s) < 2 THEN Undefined ELSE s[2]

\* array[0]: undefined on an empty array
First(s) == IF Len(s) = 0 THEN Undefined ELSE s[1]

-----------------------------------------------------------------------------
(* Risk oracle, lines 58-117 *)

LowerChar(c) ==
    CASE c = "A" -> "a" [] c = "C" -> "c" [] c = "E" -> "e" [] c = "F" -> "f"
      [] c = "G" -> "g" [] c = "H" -> "h" [] c = "I" -> "i" [] c = "L" -> "l"
      [] c = "M" -> "m" [] c = "N" -> "n" [] c = "O" -> "o" [] c = "P" -> "p"
      [] c = "R" -> "r" [] c = "S" -> "s" [] c = "T" -> "t" [] c = "U" -> "u"
      [] c = "W" -> "w" [] c = "X" -> "x" [] c = "Y" -> "y"
      [] OTHER -> c

toLowerCase(s) == [i \in DOMAIN s |-> LowerChar(s[i])]

\* s contains p as a substring
Contains(s, p) ==
    \E i \in 1..(Len(s) - Len(p) + 1) : SubSeq(s, i, i + Len(p) - 1) = p

KNOWN_NETWORKS ==
    << <<"M","y","H","o","m","e","N","e","t","w","o","r","k">>,
       <<"M","y","W","o","r","k","N","e","t","w","o","r","k">> >>

\* /public|hotel|airport|cafe|free|guest/i
PublicPatterns ==
    { <<"p","u","b","l","i","c">>, <<"h","o","t","e","l">>,
      <<"a","i","r","p","o","r","t">>, <<"c","a","f","e">>,
      <<"f","r","e","e">>, <<"g","u","e","s","t">> }

PublicPatternTest(ssid) ==
    \E p \in PublicPatterns : Contains(toLowerCase(ssid), p)

\* checkWifiSecurity testing for an open network before the known networks
checkWifiSecurityOpenFirst(scan) ==
    IF scan.fail
    THEN [risk |-> RISK_LEVELS.MEDIUM, reason |-> "Unable to determine network security"]
    ELSE IF Len(scan.conns) = 0
    THEN [risk |-> RISK_LEVELS.MEDIUM, reason |-> "Not connected to WiFi"]
    ELSE LET currentNetwork == scan.conns[1] IN
         IF currentNetwork.security = "" \/ currentNetwork.security = "Open"
         THEN [risk |-> RISK_LEVELS.HIGH, reason |-> "Connected to unsecured network"]
         ELSE IF currentNetwork.ssid \in Range(KNOWN_NETWORKS)
         THEN [risk |-> RISK_LEVELS.SAFE, reason |-> "Connected to known network"]
         ELSE IF PublicPatternTest(currentNetwork.ssid)
         THEN [risk |-> RISK_LEVELS.MEDIUM, reason |-> "Connected to public network"]
         ELSE [risk |-> RISK_LEVELS.LOW, reason |-> "Connected to secured network"]

\* checkWifiSecurity testing for a public hotspot name before the open network
checkWifiSecurityPatternFirst(scan) ==
    IF scan.fail
    THEN [risk |-> RISK_LEVELS.MEDIUM, reason |-> "Unable to determine network security"]
    ELSE IF Len(scan.conns) = 0
    THEN [risk |-> RISK_LEVELS.MEDIUM, reason |-> "Not connected to WiFi"]
    ELSE LET currentNetwork == scan.conns[1] IN
         IF currentNetwork.ssid \in Range(KNOWN_NETWORKS)
         THEN [risk |-> RISK_LEVELS.SAFE, reason |-> "Connected to known network"]
         ELSE IF PublicPatternTest(currentNetwork.ssid)
         THEN [risk |-> RISK_LEVELS.MEDIUM, reason |-> "Connected to public network"]
         ELSE IF currentNetwork.security = "" \/ currentNetwork.security = "Open"
         THEN [risk |-> RISK_LEVELS.HIGH, reason |-> "Connected to unsecured network"]
         ELSE [risk |-> RISK_LEVELS.LOW, reason |-> "Connected to secured network"]

\* scan = [fail, conns]: wifi.scan()/getCurrentConnections() threw, or the
\* current connections, each [ssid, security]; security "" is a missing value.
checkWifiSecurity(scan) ==
    IF scan.fail
    THEN [risk |-> RISK_LEVELS.MEDIUM, reason |-> "Unable to determine network security"]
    ELSE IF Len(scan.conns) = 0
    THEN [risk |-> RISK_LEVELS.MEDIUM, reason |-> "Not connected to WiFi"]
    ELSE LET currentNetwork == scan.conns[1] IN
         IF currentNetwork.ssid \in Range(KNOWN_NETWORKS)
         THEN [risk |-> RISK_LEVELS.SAFE, reason |-> "Connected to known network"]
         ELSE IF currentNetwork.security = "" \/ currentNetwork.security = "Open"
         THEN [risk |-> RISK_LEVELS.HIGH, reason |-> "Connected to unsecured network"]
         ELSE IF PublicPatternTest(currentNetwork.ssid)
         THEN [risk |-> RISK_LEVELS.MEDIUM, reason |-> "Connected to public network"]
         ELSE [risk |-> RISK_LEVELS.LOW, reason |-> "Connected to secured network"]

\* geoip.lookup's null
NoGeo == [country |-> Undefined, city |-> Undefined]

\* geoip.lookup throws (the catch of lines 113-116)
GeoError == [country |-> "error", city |-> "error"]

\* The geolocation database, an oracle of the program: three addresses stand
\* for a high-risk country, a standard-risk country and an unresolvable one.
GeoLookup(ip) ==
    CASE ip = "203.0.113.7" -> [country |-> "RU", city |-> "Moscow"]
      [] ip = "198.51.100.7" -> [country |-> "DE", city |-> "Berlin"]
      [] ip = "192.0.2.7" -> GeoError
      [] OTHER -> NoGeo

\* checkLocationSecurity leaving the location out of its HIGH verdict
checkLocationSecurityBare(ip) ==
    LET geo == GeoLookup(ip) IN
    IF geo = GeoError
    THEN [risk |-> RISK_LEVELS.MEDIUM, reason |-> "Unable to determine location security",
          location |-> NoGeo]
    ELSE IF geo = NoGeo
    THEN [risk |-> RISK_LEVELS.MEDIUM, reason |-> "Unable to determine location",
          location |-> NoGeo]
    ELSE IF geo.country \in Range(HIGH_RISK_COUNTRIES)
    THEN [risk |-> RISK_LEVELS.HIGH, reason |-> "Located in high-risk country",
          location |-> NoGeo]
    ELSE [risk |-> RISK_LEVELS.LOW, reason |-> "Located in standard-risk country",
          location |-> geo]

\* The verdict's location is NoGeo where the code returns no location field.
checkLocationSecurity(ip) ==
    LET geo == GeoLookup(ip) IN
    IF geo = GeoError
    THEN [risk |-> RISK_LEVELS.MEDIUM, reason |-> "Unable to determine location security",
          location |-> NoGeo]
    ELSE IF geo = NoGeo
    THEN [risk |-> RISK_LEVELS.MEDIUM, reason |-> "Unable to determine location",
          location |-> NoGeo]
    ELSE IF geo.country \in Range(HIGH_RISK_COUNTRIES)
    THEN [risk |-> RISK_LEVELS.HIGH, reason |-> "Located in high-risk country",
          location |-> geo]
    ELSE [risk |-> RISK_LEVELS.LOW, reason |-> "Located in standard-risk country",
          location |-> geo]

\* getPublicIP, lines 251-259: the address, or 'unknown' when the request fails
getPublicIP(reply) == IF reply = "fail" THEN "unknown" ELSE reply

-----------------------------------------------------------------------------
(* process.exit *)

Caller(cmd, src, st) == [cmd |-> cmd, src |-> src, st |-> st]

NoCaller == Caller("none", "none", "none")

Exit(code, via) ==
    /\ pc' = "exited"
    /\ exitCode' = code
    /\ exitVia' = via

-----------------------------------------------------------------------------
(* main(), lines 323-532: from the options to the written config *)

\* SelectValidator taking the first validator when the given UID is not found
SelectValidatorLenient ==
    /\ pc = "start"
    /\ IF Truthy(options.validator)
       THEN IF \E i \in DOMAIN Validators : Validators[i].UID = options.validator
            THEN selectedValidator' = options.validator
            ELSE selectedValidator' = Validators[1].UID
       ELSE \E i \in DOMAIN Validators : selectedValidator' = Validators[i].UID
    /\ pc' = "fetchRegions"
    /\ UNCHANGED <<options, env, availableRegions, selectedRegion, leaseTime,
                   wifiSecurity, locationSecurity, configWritten,
                   connectionStats, totalSeconds, elapsed, timerActive,
                   inputGrabbed, keys, cmds, tunnelUp, netLog, driverLog, shown,
                   exitCode, exitVia>>

\* lines 323-347
SelectValidator ==
    /\ pc = "start"
    /\ IF Truthy(options.validator)
       THEN IF \E i \in DOMAIN Validators : Validators[i].UID = options.validator
            THEN /\ selectedValidator' = options.validator
                 /\ pc' = "fetchRegions"
                 /\ UNCHANGED <<exitCode, exitVia>>
            ELSE /\ Exit(1, Caller("main", "validator", "err"))
                 /\ UNCHANGED selectedValidator
       ELSE \* the prompt's answer, or the random pick of quiet mode
            /\ \E i \in DOMAIN Validators : selectedValidator' = Validators[i].UID
            /\ pc' = "fetchRegions"
            /\ UNCHANGED <<exitCode, exitVia>>
    /\ UNCHANGED <<options, env, availableRegions, selectedRegion, leaseTime,
                   wifiSecurity, locationSecurity, configWritten,
                   connectionStats, totalSeconds, elapsed, timerActive,
                   inputGrabbed, keys, cmds, tunnelUp, netLog, driverLog, shown>>

\* FetchRegions with a failed catalog request ending the session
FetchRegionsFatal ==
    /\ pc = "fetchRegions"
    /\ netLog' = Append(netLog, "countries")
    /\ IF env.catalog.ok
       THEN /\ availableRegions' = env.catalog.data
            /\ pc' = "resolve"
            /\ UNCHANGED <<exitCode, exitVia>>
       ELSE /\ Exit(1, Caller("main", "countries", "err"))
            /\ UNCHANGED availableRegions
    /\ UNCHANGED <<options, env, selectedValidator, selectedRegion, leaseTime,
                   wifiSecurity, locationSecurity, configWritten,
                   connectionStats, totalSeconds, elapsed, timerActive,
                   inputGrabbed, keys, cmds, tunnelUp, driverLog, shown>>

\* lines 351-378
FetchRegions ==
    /\ pc = "fetchRegions"
    /\ netLog' = Append(netLog, "countries")
    /\ availableRegions' = IF env.catalog.ok THEN env.catalog.data ELSE FallbackRegions
    /\ pc' = "resolve"
    /\ UNCHANGED <<options, env, selectedValidator, selectedRegion, leaseTime,
                   wifiSecurity, locationSecurity, configWritten,
                   connectionStats, totalSeconds, elapsed, timerActive,
                   inputGrabbed, keys, cmds, tunnelUp, driverLog, shown,
                   exitCode, exitVia>>

\* resolveRegion taking the first catalog entry that is in the bucket
resolveRegionCatalogOrder(regionCode, catalog) ==
    LET hits == SelectSeq(catalog, LAMBDA c : c \in Range(regionCountries(regionCode))) IN
    IF Len(hits) = 0 THEN First(catalog) ELSE hits[1]

\* resolveRegion without the fallback of line 411
resolveRegionNoFallback(regionCode, catalog) ==
    LET possible == possibleCountries(regionCode, catalog) IN
    IF Len(possible) = 0 THEN Undefined ELSE possible[1]

\* lines 398-415: the country of an accepted bucket
resolveRegion(regionCode, catalog) ==
    LET possible == possibleCountries(regionCode, catalog) IN
    IF Len(possible) = 0 THEN First(catalog) ELSE possible[1]

\* Answers the time prompt accepts (its validate, lines 456-459); '30' is the
\* default.
PromptTimes == {<<"1">>, <<"3", "0">>}

\* lines 380-467
ResolveRegionAndTime ==
    /\ pc = "resolve"
    /\ IF Truthy(options.region) /\ Truthy(options.time)
       THEN LET regionCode == toUpperCase(options.region) IN
            IF regionCode \notin RegionCodes
            THEN /\ Exit(1, Caller("main", "region", "err"))
                 /\ UNCHANGED <<selectedRegion, leaseTime>>
            ELSE /\ selectedRegion' = resolveRegion(regionCode, availableRegions)
                 /\ leaseTime' = parseInt(options.time)
                 /\ IF isNaN(leaseTime') \/ leaseTime'.n <= 0
                    THEN Exit(1, Caller("main", "time", "err"))
                    ELSE pc' = "assess" /\ UNCHANGED <<exitCode, exitVia>>
       ELSE IF ~options.quiet
       THEN \* the list prompt offers the catalog; with nothing to offer it
            \* has no answer
            /\ \/ \E region \in Range(availableRegions) : selectedRegion' = region
               \/ availableRegions = <<>> /\ selectedRegion' = Undefined
            /\ \E time \in PromptTimes : leaseTime' = parseInt(time)
            /\ pc' = "assess"
            /\ UNCHANGED <<exitCode, exitVia>>
       ELSE /\ selectedRegion' = First(availableRegions)
            /\ leaseTime' = Num(DefaultLeaseMinutes)
            /\ pc' = "assess"
            /\ UNCHANGED <<exitCode, exitVia>>
    /\ UNCHANGED <<options, env, selectedValidator, availableRegions,
                   wifiSecurity, locationSecurity, configWritten,
                   connectionStats, totalSeconds, elapsed, timerActive,
                   inputGrabbed, keys, cmds, tunnelUp, netLog, driverLog, shown>>

\* lines 472-484: the IP lookup, both verdicts and the first dashboard
AssessRisk ==
    /\ pc = "assess"
    /\ netLog' = Append(netLog, "ipify")
    /\ wifiSecurity' = checkWifiSecurity(env.wifi)
    /\ locationSecurity' = checkLocationSecurity(getPublicIP(env.ip))
    /\ shown' = "DISCONNECTED"
    /\ pc' = "requestConfig"
    /\ UNCHANGED <<options, env, selectedValidator, availableRegions,
                   selectedRegion, leaseTime, configWritten,
                   connectionStats, totalSeconds, elapsed, timerActive,
                   inputGrabbed, keys, cmds, tunnelUp, driverLog,
                   exitCode, exitVia>>

\* RequestConfig repeating a failed request once before it gives up
RequestConfigRetry ==
    /\ pc = "requestConfig"
    /\ netLog' = Append(netLog, "config")
    /\ \E ok \in BOOLEAN :
          IF ok THEN pc' = "writeConfig" /\ UNCHANGED <<exitCode, exitVia>>
          ELSE IF "config" \notin Range(netLog) THEN UNCHANGED <<pc, exitCode, exitVia>>
          ELSE Exit(1, Caller("main", "config", "err"))
    /\ UNCHANGED <<options, env, selectedValidator, availableRegions,
                   selectedRegion, leaseTime, wifiSecurity, locationSecurity,
                   configWritten, connectionStats, totalSeconds, elapsed,
                   timerActive, inputGrabbed, keys, cmds, tunnelUp, driverLog,
                   shown>>

\* lines 486-519
RequestConfig ==
    /\ pc = "requestConfig"
    /\ netLog' = Append(netLog, "config")
    /\ \E ok \in BOOLEAN :
          IF ok THEN pc' = "writeConfig" /\ UNCHANGED <<exitCode, exitVia>>
          ELSE Exit(1, Caller("main", "config", "err"))
    /\ UNCHANGED <<options, env, selectedValidator, availableRegions,
                   selectedRegion, leaseTime, wifiSecurity, locationSecurity,
                   configWritten, connectionStats, totalSeconds, elapsed,
                   timerActive, inputGrabbed, keys, cmds, tunnelUp, driverLog,
                   shown>>

\* lines 521-532
WriteConfig ==
    /\ pc = "writeConfig"
    /\ \E ok \in BOOLEAN :
          IF ok
          THEN /\ configWritten' = TRUE
               /\ pc' = "safeDown"
               /\ UNCHANGED <<exitCode, exitVia>>
          ELSE /\ Exit(1, Caller("main", "write", "err"))
               /\ UNCHANGED configWritten
    /\ UNCHANGED <<options, env, selectedValidator, availableRegions,
                   selectedRegion, leaseTime, wifiSecurity, locationSecurity,
                   connectionStats, totalSeconds, elapsed, timerActive,
                   inputGrabbed, keys, cmds, tunnelUp, netLog, driverLog, shown>>

-----------------------------------------------------------------------------
(* The tunnel driver: wg-quick on cfgPath *)

\* wg-quick down: fails on an interface that does not exist ("is not a
\* WireGuard interface", line 219) and may fail on one that does.
DownOutcomes(up) == IF up THEN {"ok", "err"} ELSE {"err"}

\* wg-quick up: fails when the interface already exists and may fail otherwise.
UpOutcomes(up) == IF up THEN {"err"} ELSE {"ok", "err"}

DriverCall(cmd, src) == [cmd |-> cmd, src |-> src]

\* SafeConnectDown with the error of the defensive down not caught: safeConnect
\* returns false and main() exits
SafeConnectDownStrict ==
    /\ pc = "safeDown"
    /\ driverLog' = Append(driverLog, DriverCall("down", "setup"))
    /\ \E r \in DownOutcomes(tunnelUp) :
          IF r = "ok"
          THEN /\ tunnelUp' = FALSE
               /\ pc' = "safeUp"
               /\ UNCHANGED <<exitCode, exitVia>>
          ELSE /\ Exit(1, Caller("main", "activate", "err"))
               /\ UNCHANGED tunnelUp
    /\ UNCHANGED <<options, env, selectedValidator, availableRegions,
                   selectedRegion, leaseTime, wifiSecurity, locationSecurity,
                   configWritten, connectionStats, totalSeconds, elapsed,
                   timerActive, inputGrabbed, keys, cmds, netLog, shown>>

\* safeConnect, lines 213-224: the defensive down, its failure ignored
SafeConnectDown ==
    /\ pc = "safeDown"
    /\ driverLog' = Append(driverLog, DriverCall("down", "setup"))
    /\ \E r \in DownOutcomes(tunnelUp) :
          tunnelUp' = IF r = "ok" THEN FALSE ELSE tunnelUp
    /\ pc' = "safeUp"
    /\ UNCHANGED <<options, env, selectedValidator, availableRegions,
                   selectedRegion, leaseTime, wifiSecurity, locationSecurity,
                   configWritten, connectionStats, totalSeconds, elapsed,
                   timerActive, inputGrabbed, keys, cmds, netLog, shown,
                   exitCode, exitVia>>

\* SafeConnectUp with the result of safeConnect not looked at by main()
SafeConnectUpUnchecked ==
    /\ pc = "safeUp"
    /\ driverLog' = Append(driverLog, DriverCall("up", "setup"))
    /\ \E r \in UpOutcomes(tunnelUp) :
          tunnelUp' = IF r = "ok" THEN TRUE ELSE tunnelUp
    /\ pc' = "ipAfter"
    /\ UNCHANGED <<options, env, selectedValidator, availableRegions,
                   selectedRegion, leaseTime, wifiSecurity, locationSecurity,
                   configWritten, connectionStats, totalSeconds, elapsed,
                   timerActive, inputGrabbed, keys, cmds, netLog, shown,
                   exitCode, exitVia>>

\* safeConnect, lines 226-232, and its caller, lines 541-559
SafeConnectUp ==
    /\ pc = "safeUp"
    /\ driverLog' = Append(driverLog, DriverCall("up", "setup"))
    /\ \E r \in UpOutcomes(tunnelUp) :
          IF r = "ok"
          THEN /\ tunnelUp' = TRUE
               /\ pc' = "ipAfter"
               /\ UNCHANGED <<exitCode, exitVia>>
          ELSE /\ Exit(1, Caller("main", "activate", "err"))
               /\ UNCHANGED tunnelUp
    /\ UNCHANGED <<options, env, selectedValidator, availableRegions,
                   selectedRegion, leaseTime, wifiSecurity, locationSecurity,
                   configWritten, connectionStats, totalSeconds, elapsed,
                   timerActive, inputGrabbed, keys, cmds, netLog, shown>>

\* EnterConnected with line 567's test of the verdict's location left out
EnterConnectedAnyCountry ==
    /\ pc = "ipAfter"
    /\ netLog' = Append(netLog, "ipify")
    /\ shown' = "CONNECTED"
    /\ connectionStats' =
          [connectionStats EXCEPT
             !.countriesVisited = @ \cup {locationSecurity.location.country},
             !.totalConnections = @ + 1]
    /\ totalSeconds' = leaseTime.n * SecondsPerMinute
    /\ elapsed' = 0
    /\ timerActive' = TRUE
    /\ inputGrabbed' = TRUE
    /\ pc' = "connected"
    /\ UNCHANGED <<options, env, selectedValidator, availableRegions,
                   selectedRegion, leaseTime, wifiSecurity, locationSecurity,
                   configWritten, keys, cmds, tunnelUp, driverLog,
                   exitCode, exitVia>>

\* lines 561-606: the second IP lookup, the statistics, the timer and the key
\* listener
EnterConnected ==
    /\ pc = "ipAfter"
    /\ netLog' = Append(netLog, "ipify")
    /\ shown' = "CONNECTED"
    /\ connectionStats' =
          [connectionStats EXCEPT
             !.countriesVisited =
                 IF locationSecurity.location # NoGeo
                 THEN @ \cup {locationSecurity.location.country} ELSE @,
             !.totalConnections = @ + 1]
    /\ totalSeconds' = leaseTime.n * SecondsPerMinute
    /\ elapsed' = 0
    /\ timerActive' = TRUE
    /\ inputGrabbed' = TRUE
    /\ pc' = "connected"
    /\ UNCHANGED <<options, env, selectedValidator, availableRegions,
                   selectedRegion, leaseTime, wifiSecurity, locationSecurity,
                   configWritten, keys, cmds, tunnelUp, driverLog,
                   exitCode, exitVia>>

-----------------------------------------------------------------------------
(* CONNECTED: the event loop runs the timer callback, the key handler and  *)
(* the callbacks of the commands in flight, one at a time                  *)

Running(cmd, src) == Caller(cmd, src, "running")

Issue(c) == cmds' = cmds (+) SetToBag({c})

Replace(c, d) == cmds' = (cmds (-) SetToBag({c})) (+) SetToBag({d})

Retire(c) == cmds' = cmds (-) SetToBag({c})

\* Tick without the clearInterval of line 588
TickNoClear ==
    /\ pc = "connected"
    /\ timerActive
    /\ elapsed < MaxTicks
    /\ elapsed' = elapsed + 1
    /\ connectionStats' = [connectionStats EXCEPT !.totalTime = @ + 1]
    /\ IF elapsed' >= totalSeconds
       THEN /\ shown' = "DISCONNECTING"
            /\ driverLog' = Append(driverLog, DriverCall("down", "timer"))
            /\ Issue(Running("down", "timer"))
       ELSE UNCHANGED <<shown, driverLog, cmds>>
    /\ UNCHANGED <<options, env, pc, selectedValidator, availableRegions,
                   selectedRegion, leaseTime, wifiSecurity, locationSecurity,
                   configWritten, totalSeconds, timerActive, inputGrabbed, keys,
                   tunnelUp, netLog, exitCode, exitVia>>

\* Tick with line 587's comparison written as elapsed > totalSeconds
TickLate ==
    /\ pc = "connected"
    /\ timerActive
    /\ elapsed < MaxTicks
    /\ elapsed' = elapsed + 1
    /\ connectionStats' = [connectionStats EXCEPT !.totalTime = @ + 1]
    /\ IF elapsed' > totalSeconds
       THEN /\ timerActive' = FALSE
            /\ shown' = "DISCONNECTING"
            /\ driverLog' = Append(driverLog, DriverCall("down", "timer"))
            /\ Issue(Running("down", "timer"))
       ELSE UNCHANGED <<timerActive, shown, driverLog, cmds>>
    /\ UNCHANGED <<options, env, pc, selectedValidator, availableRegions,
                   selectedRegion, leaseTime, wifiSecurity, locationSecurity,
                   configWritten, totalSeconds, inputGrabbed, keys, tunnelUp,
                   netLog, exitCode, exitVia>>

\* lines 582-603: one tick of setInterval
Tick ==
    /\ pc = "connected"
    /\ timerActive
    /\ elapsed < MaxTicks
    /\ elapsed' = elapsed + 1
    /\ connectionStats' = [connectionStats EXCEPT !.totalTime = @ + 1]
    /\ IF elapsed' >= totalSeconds
       THEN /\ timerActive' = FALSE
            /\ shown' = "DISCONNECTING"
            /\ driverLog' = Append(driverLog, DriverCall("down", "timer"))
            /\ Issue(Running("down", "timer"))
       ELSE UNCHANGED <<timerActive, shown, driverLog, cmds>>
    /\ UNCHANGED <<options, env, pc, selectedValidator, availableRegions,
                   selectedRegion, leaseTime, wifiSecurity, locationSecurity,
                   configWritten, totalSeconds, inputGrabbed, keys, tunnelUp,
                   netLog, exitCode, exitVia>>

\* A 'key' event reaches the handler of line 607
KeyEvent ==
    /\ pc = "connected"
    /\ inputGrabbed
    /\ keys < MaxKeys
    /\ keys' = keys + 1

\* KeyPanic flushing the DNS cache first, the wg-quick down left for later
KeyPanicFlushFirst ==
    /\ KeyEvent
    /\ shown' = "DISCONNECTING"
    /\ driverLog' = Append(driverLog, DriverCall("flush", "panic"))
    /\ Issue(Running("flush", "panic"))
    /\ UNCHANGED <<options, env, pc, selectedValidator, availableRegions,
                   selectedRegion, leaseTime, wifiSecurity, locationSecurity,
                   configWritten, connectionStats, totalSeconds, elapsed,
                   timerActive, inputGrabbed, tunnelUp, netLog,
                   exitCode, exitVia>>

\* lines 608-610 and 187-192: 'p'
KeyPanic ==
    /\ KeyEvent
    /\ shown' = "DISCONNECTING"
    /\ driverLog' = Append(driverLog, DriverCall("down", "panic"))
    /\ Issue(Running("down", "panic"))
    /\ UNCHANGED <<options, env, pc, selectedValidator, availableRegions,
                   selectedRegion, leaseTime, wifiSecurity, locationSecurity,
                   configWritten, connectionStats, totalSeconds, elapsed,
                   timerActive, inputGrabbed, tunnelUp, netLog,
                   exitCode, exitVia>>

\* lines 612-614: 'r', up to its first await
KeyRefresh ==
    /\ KeyEvent
    /\ netLog' = Append(netLog, "ipify")
    /\ Issue(Running("refresh", "r"))
    /\ UNCHANGED <<options, env, pc, selectedValidator, availableRegions,
                   selectedRegion, leaseTime, wifiSecurity, locationSecurity,
                   configWritten, connectionStats, totalSeconds, elapsed,
                   timerActive, inputGrabbed, tunnelUp, driverLog, shown,
                   exitCode, exitVia>>

\* lines 620-624 and 635-639: 'd', and 'q' or Ctrl-C
Disconnect(src) ==
    /\ KeyEvent
    /\ inputGrabbed' = FALSE
    /\ shown' = "DISCONNECTING"
    /\ driverLog' = Append(driverLog, DriverCall("down", src))
    /\ Issue(Running("down", src))
    /\ UNCHANGED <<options, env, pc, selectedValidator, availableRegions,
                   selectedRegion, leaseTime, wifiSecurity, locationSecurity,
                   configWritten, connectionStats, totalSeconds, elapsed,
                   timerActive, tunnelUp, netLog, exitCode, exitVia>>

KeyDisconnect == Disconnect("d")

KeyQuit == Disconnect("q")

\* The child process of an execaCommand does its work
CommandRuns ==
    /\ pc = "connected"
    /\ \E c \in BagToSet(cmds) :
          /\ c.st = "running"
          /\ \/ /\ c.cmd = "down"
                /\ \E r \in DownOutcomes(tunnelUp) :
                      /\ tunnelUp' = IF r = "ok" THEN FALSE ELSE tunnelUp
                      /\ Replace(c, [c EXCEPT !.st = r])
             \/ /\ c.cmd = "flush"
                /\ \E r \in {"ok", "err"} : Replace(c, [c EXCEPT !.st = r])
                /\ UNCHANGED tunnelUp
    /\ UNCHANGED <<options, env, pc, selectedValidator, availableRegions,
                   selectedRegion, leaseTime, wifiSecurity, locationSecurity,
                   configWritten, connectionStats, totalSeconds, elapsed,
                   timerActive, inputGrabbed, keys, netLog, driverLog, shown,
                   exitCode, exitVia>>

\* DisconnectDone with a .catch that reports the failure and does not exit
DisconnectDoneReportOnly ==
    /\ pc = "connected"
    /\ \E c \in BagToSet(cmds) :
          /\ c.cmd = "down"
          /\ c.src \in {"timer", "d", "q"}
          /\ c.st \in {"ok", "err"}
          /\ Retire(c)
          /\ IF c.st = "ok" THEN Exit(0, c) ELSE UNCHANGED <<pc, exitCode, exitVia>>
    /\ UNCHANGED <<options, env, selectedValidator, availableRegions,
                   selectedRegion, leaseTime, wifiSecurity, locationSecurity,
                   configWritten, connectionStats, totalSeconds, elapsed,
                   timerActive, inputGrabbed, keys, tunnelUp, netLog,
                   driverLog, shown>>

\* lines 594-601, 625-632, 640-647: .then exits 0, .catch exits 1
DisconnectDone ==
    /\ pc = "connected"
    /\ \E c \in BagToSet(cmds) :
          /\ c.cmd = "down"
          /\ c.src \in {"timer", "d", "q"}
          /\ c.st \in {"ok", "err"}
          /\ Retire(c)
          /\ Exit(IF c.st = "ok" THEN 0 ELSE 1, c)
    /\ UNCHANGED <<options, env, selectedValidator, availableRegions,
                   selectedRegion, leaseTime, wifiSecurity, locationSecurity,
                   configWritten, connectionStats, totalSeconds, elapsed,
                   timerActive, inputGrabbed, keys, tunnelUp, netLog,
                   driverLog, shown>>

\* os.platform() values with a DNS cache flush, lines 195-199
FlushPlatforms == {"darwin", "linux"}

\* lines 192-207 and 611: the panic sequence after its wg-quick down
PanicDownDone ==
    /\ pc = "connected"
    /\ \E c \in BagToSet(cmds) :
          /\ c.cmd = "down"
          /\ c.src = "panic"
          /\ c.st \in {"ok", "err"}
          /\ IF c.st = "ok" /\ env.platform \in FlushPlatforms
             THEN /\ driverLog' = Append(driverLog, DriverCall("flush", "panic"))
                  /\ Replace(c, Running("flush", "panic"))
                  /\ UNCHANGED <<pc, exitCode, exitVia>>
             ELSE /\ Retire(c)
                  /\ Exit(0, c)
                  /\ UNCHANGED driverLog
    /\ UNCHANGED <<options, env, selectedValidator, availableRegions,
                   selectedRegion, leaseTime, wifiSecurity, locationSecurity,
                   configWritten, connectionStats, totalSeconds, elapsed,
                   timerActive, inputGrabbed, keys, tunnelUp, netLog, shown>>

\* lines 195-207 and 611: the panic sequence after the DNS flush
PanicFlushDone ==
    /\ pc = "connected"
    /\ \E c \in BagToSet(cmds) :
          /\ c.cmd = "flush"
          /\ c.st \in {"ok", "err"}
          /\ Retire(c)
          /\ Exit(0, c)
    /\ UNCHANGED <<options, env, selectedValidator, availableRegions,
                   selectedRegion, leaseTime, wifiSecurity, locationSecurity,
                   configWritten, connectionStats, totalSeconds, elapsed,
                   timerActive, inputGrabbed, keys, tunnelUp, netLog,
                   driverLog, shown>>

\* lines 614-617: the refresh handler after its awaits
RefreshRender ==
    /\ pc = "connected"
    /\ \E c \in BagToSet(cmds) :
          /\ c.cmd = "refresh"
          /\ Retire(c)
    /\ shown' = "CONNECTED"
    /\ UNCHANGED <<options, env, pc, selectedValidator, availableRegions,
                   selectedRegion, leaseTime, wifiSecurity, locationSecurity,
                   configWritten, connectionStats, totalSeconds, elapsed,
                   timerActive, inputGrabbed, keys, tunnelUp, netLog,
                   driverLog, exitCode, exitVia>>

-----------------------------------------------------------------------------
(* Initial states and specifications *)

Countries == {"US", "GB", "DE"}

Catalogs == UNION {[1..k -> Countries] : k \in 0..MaxCatalog}

CatalogReply(ok, data) == [ok |-> ok, data |-> data]

Opts(v, r, t, q) == [validator |-> v, region |-> r, time |-> t, quiet |-> q]

WifiScan(fail, conns) == [fail |-> fail, conns |-> conns]

HomeScan ==
    WifiScan(FALSE, <<[ssid |-> KNOWN_NETWORKS[1], security |-> "WPA2"]>>)

\* What main() starts from, for given options, a given world and a given state
\* of the interface of cfgPath (up: left behind by an earlier run)
StartOn(o, e, up) ==
    /\ options = o
    /\ env = e
    /\ pc = "start"
    /\ selectedValidator = Absent
    /\ availableRegions = <<>>
    /\ selectedRegion = Undefined
    /\ leaseTime = NaN
    /\ wifiSecurity = [risk |-> Undefined, reason |-> Undefined]
    /\ locationSecurity = [risk |-> Undefined, reason |-> Undefined, location |-> NoGeo]
    /\ configWritten = FALSE
    /\ connectionStats = [totalConnections |-> 0, totalTime |-> 0, countriesVisited |-> {}]
    /\ totalSeconds = 0
    /\ elapsed = 0
    /\ timerActive = FALSE
    /\ inputGrabbed = FALSE
    /\ keys = 0
    /\ cmds = EmptyBag
    /\ tunnelUp = up
    /\ netLog = <<>>
    /\ driverLog = <<>>
    /\ shown = "none"
    /\ exitCode = -1
    /\ exitVia = NoCaller

\* main() on a machine with no interface left behind
Start(o, e) == StartOn(o, e, FALSE)

\* Sessions: the README's explicit command line with a one-minute lease, the
\* quiet defaults, and an unknown validator
SessionOptions ==
    { Opts(<<"4">>, <<"e", "u">>, <<"1">>, FALSE),
      Opts(<<"4">>, Absent, Absent, TRUE),
      Opts(<<"9">>, Absent, Absent, TRUE) }

SessionWorlds ==
    [catalog : {CatalogReply(FALSE, <<>>), CatalogReply(TRUE, <<"US", "GB", "DE">>)},
     ip : {"fail", "203.0.113.7"},
     wifi : {HomeScan},
     platform : {"linux", "win32"}]

Init == \E o \in SessionOptions, e \in SessionWorlds : Start(o, e)

Next ==
    \/ SelectValidator
    \/ FetchRegions
    \/ ResolveRegionAndTime
    \/ AssessRisk
    \/ RequestConfig
    \/ WriteConfig
    \/ SafeConnectDown
    \/ SafeConnectUp
    \/ EnterConnected
    \/ Tick
    \/ KeyPanic
    \/ KeyRefresh
    \/ KeyDisconnect
    \/ KeyQuit
    \/ CommandRuns
    \/ DisconnectDone
    \/ PanicDownDone
    \/ PanicFlushDone
    \/ RefreshRender

Spec == Init /\ [][Next]_vars

\* The explicit session on a machine where an earlier run may have left the
\* interface of cfgPath up
StaleWorlds ==
    [catalog : {CatalogReply(TRUE, <<"US", "GB", "DE">>)},
     ip : {"203.0.113.7"},
     wifi : {HomeScan},
     platform : {"linux"}]

InitStale ==
    \E e \in StaleWorlds, up \in BOOLEAN :
       StartOn(Opts(<<"4">>, <<"e", "u">>, <<"1">>, FALSE), e, up)

SpecStale == InitStale /\ [][Next]_vars

\* The explicit one-minute session under the scheduling of the event loop: the
\* interval timer keeps firing, every child process ends, and the callback of
\* every ended command runs
LiveWorlds ==
    [catalog : {CatalogReply(TRUE, <<"US", "GB", "DE">>)},
     ip : {"203.0.113.7"},
     wifi : {HomeScan},
     platform : {"linux", "win32"}]

InitLive ==
    \E e \in LiveWorlds : Start(Opts(<<"4">>, <<"e", "u">>, <<"1">>, FALSE), e)

EventLoopFairness ==
    /\ WF_vars(Tick)
    /\ WF_vars(CommandRuns)
    /\ WF_vars(DisconnectDone)
    /\ WF_vars(PanicDownDone)
    /\ WF_vars(PanicFlushDone)

SpecLive == InitLive /\ [][Next]_vars /\ EventLoopFairness

\* Command lines and catalog replies in breadth, for the steps of main() up to
\* the written config
RegionArgs ==
    {Absent, <<"U", "S">>, <<"e", "u">>, <<"A", "S", "I", "A">>, <<"x", "x">>}

TimeArgs ==
    {Absent, <<"0">>, <<"-", "1">>, <<"x">>, <<"1">>, <<"6", "0">>, <<"2", "x">>}

SetupOptions ==
    {Opts(v, r, t, q) : v \in {Absent, <<"4">>, <<"9">>}, r \in RegionArgs,
                        t \in TimeArgs, q \in BOOLEAN}

SetupWorlds ==
    [catalog : {CatalogReply(FALSE, <<>>)} \cup {CatalogReply(TRUE, c) : c \in Catalogs},
     ip : {"203.0.113.7"},
     wifi : {HomeScan},
     platform : {"linux"}]

InitSetup == \E o \in SetupOptions, e \in SetupWorlds : Start(o, e)

NextSetup ==
    \/ SelectValidator
    \/ FetchRegions
    \/ ResolveRegionAndTime
    \/ AssessRisk
    \/ RequestConfig
    \/ WriteConfig

SpecSetup == InitSetup /\ [][NextSetup]_vars

\* The quiet session in worlds that differ in what the WiFi scan and the
\* lookups of the public address report
ScanSsids ==
    { KNOWN_NETWORKS[1], KNOWN_NETWORKS[2],
      <<"m","y","h","o","m","e","n","e","t","w","o","r","k">>,
      <<"M","y","H","o","m","e","N","e","t","w","o","r","k","2">>,
      <<"H","O","T","E","L">>,
      <<"A","i","r","p","o","r","t","_","F","r","e","e">>,
      <<"c","a","f","e">>,
      <<"O","f","f","i","c","e">>,
      <<>> }

ScanSecurities == {"", "Open", "WPA2"}

ScanConnections == [ssid : ScanSsids, security : ScanSecurities]

WifiScans ==
    {WifiScan(TRUE, <<>>)}
       \cup {WifiScan(FALSE, c) :
                c \in UNION {[1..k -> ScanConnections] : k \in 0..MaxConnections}}

OracleWorlds ==
    [catalog : {CatalogReply(TRUE, <<"US", "GB", "DE">>)},
     ip : {"fail", "203.0.113.7", "198.51.100.7", "192.0.2.7", "10.0.0.7"},
     wifi : WifiScans,
     platform : {"linux"}]

InitOracle ==
    \E e \in OracleWorlds : Start(Opts(<<"4">>, Absent, Absent, TRUE), e)

SpecOracle == InitOracle /\ [][NextSetup]_vars

-----------------------------------------------------------------------------
(* The session state of the controller, read off the position of main()    *)
(* and the driver commands issued since activation                         *)

\* The deactivate calls issued by the timer, 'd' and 'q'/Ctrl-C
TerminationCalls ==
    SelectSeq(driverLog, LAMBDA c : c.cmd = "down" /\ c.src \in {"timer", "d", "q"})

\* Every driver command issued after activation
TeardownCalls == SelectSeq(driverLog, LAMBDA c : c.src # "setup")

sessionState ==
    CASE pc = "start" -> "IDLE"
      [] pc \in {"fetchRegions", "resolve"} -> "SELECTING"
      [] pc \in {"assess", "requestConfig", "writeConfig"} -> "PROVISIONING"
      [] pc \in {"safeDown", "safeUp", "ipAfter"} -> "ACTIVATING"
      [] pc = "connected" ->
            IF TeardownCalls = <<>> THEN "CONNECTED" ELSE "DISCONNECTING"
      [] pc = "exited" ->
            IF exitVia.cmd = "main" THEN "FAILED"
            ELSE IF Head(TeardownCalls).src = "panic" THEN "PANIC"
            ELSE "TERMINATED"

-----------------------------------------------------------------------------
(* Properties of the termination paths *)

\* C1: at most one deactivate call is issued as a result of termination (timer
\* expiry, 'd', 'q'/Ctrl-C): the first signal initiates teardown, every later
\* one is a no-op.
C1_AtMostOneDeactivate == Len(TerminationCalls) <= 1

\* C2: the tunnel is never up in IDLE, SELECTING, PROVISIONING, FAILED,
\* TERMINATED or PANIC, and whenever the session is, or is displayed as,
\* CONNECTED the tunnel is up and no teardown command has been issued.
C2_TunnelUpIffConnected ==
    /\ sessionState \in {"IDLE", "SELECTING", "PROVISIONING", "FAILED",
                         "TERMINATED", "PANIC"} => ~tunnelUp
    /\ (sessionState = "CONNECTED" \/ (pc = "connected" /\ shown = "CONNECTED"))
          => tunnelUp /\ TeardownCalls = <<>>

\* C3: once the timer, 'd' or 'q' has initiated teardown, a panic key causes no
\* panic action: no panic sequence (its deactivate, then its DNS flush) is
\* started after a termination deactivate was issued.
C3_NoPanicAfterTeardown ==
    \A i, j \in DOMAIN driverLog :
        (i < j /\ driverLog[i].src \in {"timer", "d", "q"})
            => driverLog[j] # DriverCall("down", "panic")

PanicStep == KeyPanic \/ PanicDownDone \/ PanicFlushDone

\* C4: a process that exits from the panic sequence has issued the panic
\* deactivate, and issued it before any DNS flush, whether the flush succeeded
\* or failed; no step of the panic sequence issues a termination deactivate or
\* changes ConnectionStats.
C4_PanicDeactivatesFirst ==
    [][ /\ PanicStep =>
              /\ connectionStats' = connectionStats
              /\ TerminationCalls' = TerminationCalls
        /\ (pc' = "exited" /\ exitVia'.src = "panic") =>
              \E i \in DOMAIN driverLog' :
                  /\ driverLog'[i] = DriverCall("down", "panic")
                  /\ \A j \in 1..(i - 1) : driverLog'[j] # DriverCall("flush", "panic")
      ]_vars

\* C4 witness: panic pressed in CONNECTED, the tunnel taken down, the DNS flush
\* failed, the process exited
C4_Witness ==
    /\ pc = "exited"
    /\ sessionState = "PANIC"
    /\ exitVia = Caller("flush", "panic", "err")
    /\ ~tunnelUp

\* C9: a session torn down successfully by the timer, 'd' or 'q' exits with
\* code 0.
C9_CleanTeardownExitsZero ==
    (/\ pc = "exited"
     /\ sessionState = "TERMINATED"
     /\ \E c \in BagToSet(cmds) \cup {exitVia} :
            c.cmd = "down" /\ c.src \in {"timer", "d", "q"} /\ c.st = "ok")
    => exitCode = 0

\* C10: a process that exits on a failed deactivate, on any termination path
\* (timer, 'd', 'q', panic), exits with a non-zero code.
C10_FailedDeactivateExitsNonZero ==
    (pc = "exited" /\ exitVia.cmd = "down" /\ exitVia.st = "err") => exitCode # 0

-----------------------------------------------------------------------------
(* Properties of the resolution of region and duration *)

InvalidTime ==
    /\ Truthy(options.time)
    /\ isNaN(parseInt(options.time)) \/ parseInt(options.time).n <= 0

InvalidRegion ==
    /\ Truthy(options.region)
    /\ toUpperCase(options.region) \notin RegionCodes

\* The branch of line 383 ran with an accepted bucket
ExplicitResolved ==
    /\ Truthy(options.region)
    /\ Truthy(options.time)
    /\ toUpperCase(options.region) \in RegionCodes
    /\ pc \notin {"start", "fetchRegions", "resolve"}
    /\ pc = "exited" => exitVia.src # "validator"

Bucket == regionCountries(toUpperCase(options.region))

BucketHit == Range(Bucket) \cap Range(availableRegions) # {}

\* The first element of s that is in set
FirstIn(s, set) ==
    s[CHOOSE i \in DOMAIN s : s[i] \in set /\ \A j \in 1..(i - 1) : s[j] \notin set]

\* C5: with an explicit --time that is not a positive number, no network call
\* is ever made: the run fails first.
C5_InvalidTimeNoNetwork == InvalidTime => netLog = <<>>

\* C6: with an explicit --region outside US, EU, ASIA (case-insensitive) the
\* run never provisions or activates: no config request, no config artifact,
\* no driver call.
C6_InvalidRegionNeverProvisions ==
    InvalidRegion => /\ "config" \notin Range(netLog)
                     /\ ~configWritten
                     /\ driverLog = <<>>

\* C7: for a bucket with a country in the catalog, the resolved region is the
\* first element of the catalog, in catalog order, that is in the bucket.
C7_FirstInCatalogOrder ==
    (ExplicitResolved /\ BucketHit) => selectedRegion = FirstIn(availableRegions, Range(Bucket))

\* C7 amended: for a bucket with a country in the catalog, the resolved region
\* is the first country of the bucket, in the order of the mapping table, that
\* is in the catalog.
C7_FirstInBucketOrder ==
    (ExplicitResolved /\ BucketHit) => selectedRegion = FirstIn(Bucket, Range(availableRegions))

\* C7 witness: catalog [US, GB, DE], bucket EU, resolved and requested as DE
C7_Witness ==
    /\ ExplicitResolved
    /\ availableRegions = <<"US", "GB", "DE">>
    /\ toUpperCase(options.region) = <<"E", "U">>
    /\ selectedRegion = "DE"
    /\ pc = "writeConfig"

\* C8: for a bucket with no country in the catalog, the selected region is the
\* catalog's first element and the missing bucket fails nothing: with a valid
\* --time the run goes on to provisioning.
C8_FallbackToFirst ==
    (ExplicitResolved /\ ~BucketHit) =>
        /\ selectedRegion = First(availableRegions)
        /\ ~InvalidTime =>
              \/ pc \in {"assess", "requestConfig", "writeConfig", "safeDown"}
              \/ pc = "exited" /\ exitVia.src \in {"config", "write"}

\* C8 witness: bucket ASIA, a catalog without its countries, the config
\* requested for the catalog's first entry
C8_Witness ==
    /\ ExplicitResolved
    /\ ~BucketHit
    /\ toUpperCase(options.region) = <<"A", "S", "I", "A">>
    /\ Len(availableRegions) > 1
    /\ selectedRegion = availableRegions[1]
    /\ "config" \in Range(netLog)


-----------------------------------------------------------------------------
(* Properties of the tunnel driver calls *)

\* C11: deactivate is idempotent: a deactivate that runs when no tunnel is
\* active on the path (a second call in succession) is a no-op success, it
\* never gets an error outcome.
C11_DeactivateIdempotent ==
    [][~tunnelUp =>
          \A c \in BagToSet(cmds') :
             (c.cmd = "down" /\ c.st = "err") =>
                CopiesIn(c, cmds') <= CopiesIn(c, cmds)]_vars


\* C12: in every session that reaches ACTIVATING a deactivate on the session's
\* config path is issued and has completed before the activate call, and a
\* failure of that defensive deactivate never prevents the activate call: no
\* session leaves ACTIVATING without having issued it.
C12_DefensiveDeactivateFirst ==
    /\ \A i \in 1..Len(driverLog) :
          driverLog[i].cmd = "up" =>
             i > 1 /\ driverLog[i - 1] = DriverCall("down", "setup")
    /\ pc = "safeUp" => driverLog = <<DriverCall("down", "setup")>>
    /\ (configWritten /\ pc \notin {"safeDown", "safeUp"}) =>
          /\ Len(driverLog) >= 2
          /\ driverLog[2] = DriverCall("up", "setup")

\* The defensive deactivate failed on an interface left up by an earlier run,
\* and the activate call was issued all the same (and failed in its turn)
C12_Witness ==
    /\ pc = "exited"
    /\ exitVia = Caller("main", "activate", "err")
    /\ tunnelUp
    /\ driverLog = <<DriverCall("down", "setup"), DriverCall("up", "setup")>>


-----------------------------------------------------------------------------
(* Properties of the failures before CONNECTED *)

\* C13: when the region-catalog request fails the session does not fail for
\* it: the static fallback list becomes the catalog and the session goes on
\* to the region and duration, so that any later exit has another cause.
C13_CatalogFailureFallsBack ==
    (/\ ~env.catalog.ok
     /\ pc \notin {"start", "fetchRegions"}
     /\ exitVia # Caller("main", "validator", "err")) =>
       /\ availableRegions = <<"US", "GB", "DE", "FR", "JP">>
       /\ pc = "exited" => exitVia.src \in {"region", "time", "config", "write"}

\* The catalog request failed and the config of a region of the fallback list
\* has been obtained
C13_Witness ==
    /\ ~env.catalog.ok
    /\ netLog = <<"countries", "ipify", "config">>
    /\ pc = "writeConfig"
    /\ selectedRegion = "DE"


\* --validator with a UID that no entry of the validator list has
UnknownValidator ==
    /\ Truthy(options.validator)
    /\ \A i \in DOMAIN Validators : Validators[i].UID # options.validator

\* C14: with an explicit validator id that matches no configured validator the
\* session goes from IDLE to FAILED with a non-zero exit, without contacting
\* any validator and without any tunnel-driver call.
C14_UnknownValidatorFails ==
    UnknownValidator =>
       /\ sessionState \in {"IDLE", "FAILED"}
       /\ pc = "exited" => exitCode > 0
       /\ netLog = <<>>
       /\ driverLog = <<>>
       /\ cmds = EmptyBag

C14_Witness ==
    /\ options.validator = <<"9">>
    /\ sessionState = "FAILED"
    /\ exitVia = Caller("main", "validator", "err")


\* C15: when the config request fails the session goes to FAILED with a
\* non-zero exit: the request is not retried, no config artifact is written
\* and no driver call is ever issued. The failed request is the step that
\* leaves the request without going on to the write of the config.
C15_ConfigFailureFails ==
    [][/\ (pc = "requestConfig" /\ pc' # "writeConfig") =>
             /\ (sessionState)' = "FAILED"
             /\ exitCode' > 0
             /\ exitVia' = Caller("main", "config", "err")
             /\ netLog' = Append(netLog, "config")
             /\ "config" \notin Range(netLog)
       /\ exitVia' = Caller("main", "config", "err") =>
             /\ ~configWritten'
             /\ driverLog' = <<>>
             /\ cmds' = EmptyBag]_vars

C15_Witness ==
    /\ sessionState = "FAILED"
    /\ exitVia = Caller("main", "config", "err")
    /\ exitCode = 1
    /\ netLog = <<"countries", "ipify", "config">>


\* C16: when the driver's activate call fails the session goes to FAILED with
\* a non-zero exit and never enters CONNECTED: connectionStats is unchanged
\* and neither the timer nor the key listener is started. The failed activate
\* is the step of safeUp that does not go on, or leaves no tunnel behind.
C16_ActivationFailureFails ==
    [][/\ (pc = "safeUp" /\ (pc' # "ipAfter" \/ ~tunnelUp')) =>
             /\ (sessionState)' = "FAILED"
             /\ exitCode' > 0
             /\ exitVia' = Caller("main", "activate", "err")
             /\ connectionStats' = connectionStats
       /\ exitVia' = Caller("main", "activate", "err") =>
             /\ connectionStats' =
                   [totalConnections |-> 0, totalTime |-> 0, countriesVisited |-> {}]
             /\ shown' # "CONNECTED"
             /\ ~timerActive'
             /\ ~inputGrabbed'
             /\ elapsed' = 0
             /\ keys' = 0]_vars

C16_Witness ==
    /\ sessionState = "FAILED"
    /\ exitVia = Caller("main", "activate", "err")
    /\ exitCode = 1
    /\ ~tunnelUp
    /\ connectionStats.totalConnections = 0


-----------------------------------------------------------------------------
(* Properties of the statistics and the countdown *)

\* The step in which main() gets past the activation: entry to CONNECTED
EntersConnected == pc = "ipAfter" /\ pc' = "connected"

\* C17: totalConnections is incremented exactly once per session, at entry to
\* CONNECTED and at no other point (no tick, refresh, disconnect or panic
\* changes it), and the country of the resolved location is added to
\* countriesVisited in that same step if and only if the location verdict
\* carries location detail.
C17_StatsOnConnect ==
    [][/\ EntersConnected =>
             /\ connectionStats'.totalConnections =
                   connectionStats.totalConnections + 1
             /\ connectionStats'.countriesVisited =
                   IF locationSecurity.location # NoGeo
                   THEN connectionStats.countriesVisited
                           \cup {locationSecurity.location.country}
                   ELSE connectionStats.countriesVisited
       /\ ~EntersConnected =>
             /\ connectionStats'.totalConnections = connectionStats.totalConnections
             /\ connectionStats'.countriesVisited = connectionStats.countriesVisited
       /\ connectionStats'.totalConnections =
             IF (sessionState)' \in {"CONNECTED", "DISCONNECTING", "TERMINATED", "PANIC"}
             THEN 1 ELSE 0]_vars

\* A connected session from a resolvable address, two ticks and a key later
C17_Witness ==
    /\ pc = "connected"
    /\ keys = 1
    /\ connectionStats =
          [totalConnections |-> 1, totalTime |-> 2, countriesVisited |-> {"RU"}]


\* The deactivate calls of the expiry branch in a driver log
TimerCalls(log) == SelectSeq(log, LAMBDA c : c = DriverCall("down", "timer"))

\* C18: each timer tick increments elapsed and totalTime by exactly one (and
\* nothing else changes them), the expiry teardown is initiated on exactly the
\* tick at which elapsed reaches totalSeconds, never on an earlier one, and no
\* tick occurs after that one.
C18_TickCountsAndExpiry ==
    [][LET ticked == elapsed' # elapsed
           expires == Len(TimerCalls(driverLog')) > Len(TimerCalls(driverLog))
       IN  /\ ticked =>
                 /\ pc = "connected"
                 /\ elapsed' = elapsed + 1
                 /\ connectionStats'.totalTime = connectionStats.totalTime + 1
                 /\ elapsed < totalSeconds
           /\ ~ticked => connectionStats'.totalTime = connectionStats.totalTime
           /\ expires <=> (ticked /\ elapsed' = totalSeconds)
           /\ Len(TimerCalls(driverLog')) <= 1]_vars

\* The one-minute lease has expired on its 60th tick
C18_Witness ==
    /\ pc = "connected"
    /\ totalSeconds = 60
    /\ elapsed = 60
    /\ connectionStats.totalTime = 60
    /\ ~timerActive
    /\ TimerCalls(driverLog) = <<DriverCall("down", "timer")>>


-----------------------------------------------------------------------------
(* Properties of the resolved duration *)

\* --quiet with neither --region nor --time
QuietDefaults ==
    /\ options.quiet
    /\ ~Truthy(options.region)
    /\ ~Truthy(options.time)

\* main() has got past the resolution of region and duration
Resolved ==
    /\ sessionState \notin {"IDLE", "SELECTING"}
    /\ exitVia.src \notin {"validator", "region", "time"}

\* C19: in quiet mode with neither --region nor --time the resolved region is
\* the first element of the catalog in use and the duration is 30 minutes:
\* the countdown of the connected session runs over 1800 seconds.
C19_QuietDefaults ==
    (QuietDefaults /\ Resolved) =>
       /\ Len(availableRegions) > 0 => selectedRegion = availableRegions[1]
       /\ leaseTime = Num(30)
       /\ connectionStats.totalConnections = 1 => totalSeconds = 1800

\* A quiet session on the validator's own catalog, connected and counting
C19_Witness ==
    /\ QuietDefaults
    /\ env.catalog.ok
    /\ pc = "connected"
    /\ selectedRegion = "US"
    /\ totalSeconds = 1800
    /\ elapsed = 1


\* --time n with a decimal number n > 0
PositiveTime ==
    /\ Truthy(options.time)
    /\ Range(options.time) \subseteq DigitChars
    /\ parseInt(options.time).n > 0

\* C20: whenever --time n with n > 0 is given, the duration is resolved from
\* it, whether or not --region or --quiet is given too: the lease requested
\* with the config is n minutes and the countdown runs over 60 * n seconds.
C20_ExplicitTimeResolves ==
    (PositiveTime /\ Resolved) =>
       /\ leaseTime = parseInt(options.time)
       /\ connectionStats.totalConnections = 1 =>
             totalSeconds = 60 * parseInt(options.time).n


-----------------------------------------------------------------------------
(* Properties of the dashboard refresh *)

\* The key handler takes its 'r' branch in this step
RefreshHandled ==
    CopiesIn(Running("refresh", "r"), cmds') > CopiesIn(Running("refresh", "r"), cmds)

\* The 'r' branch gets to its showSecurityDashboard in this step
RefreshRendered ==
    CopiesIn(Running("refresh", "r"), cmds') < CopiesIn(Running("refresh", "r"), cmds)

\* What a refresh leaves alone: the position of main(), the countdown, the
\* timer, the statistics, the interface and the driver log
RefreshFrame ==
    UNCHANGED <<pc, elapsed, totalSeconds, timerActive, connectionStats,
                tunnelUp, driverLog, exitCode, exitVia>>

\* C21: a dashboard refresh is handled only while the session is CONNECTED,
\* never once teardown has been initiated, and it is read-only: it leaves the
\* session state, elapsed, the timer, connectionStats and the driver state
\* unchanged and issues no driver call.
C21_RefreshOnlyConnectedReadOnly ==
    [][(RefreshHandled \/ RefreshRendered) =>
          /\ sessionState = "CONNECTED"
          /\ (sessionState)' = "CONNECTED"
          /\ RefreshFrame]_vars


-----------------------------------------------------------------------------
(* Properties of the risk oracle *)

\* main() has both verdicts (line 477)
Assessed == "ipify" \in Range(netLog)

\* The scan succeeded and reports a current connection
Associated == ~env.wifi.fail /\ Len(env.wifi.conns) > 0

\* C22: for every outcome of the WiFi scan (failure, no association, an
\* association with any SSID and any reported encryption) the WiFi verdict is
\* SAFE if and only if there is a current association and its SSID is in the
\* list of known networks.
C22_SafeIffKnownNetwork ==
    Assessed =>
       (wifiSecurity.risk = "SAFE"
           <=> (Associated /\ env.wifi.conns[1].ssid \in Range(KNOWN_NETWORKS)))

\* A known network that reports no encryption is SAFE
C22_Witness ==
    /\ Assessed
    /\ env.wifi = WifiScan(FALSE, <<[ssid |-> KNOWN_NETWORKS[2], security |-> "Open"]>>)
    /\ wifiSecurity.risk = "SAFE"

\* C23: the WiFi rules apply in strict priority order: a known SSID gives
\* SAFE; otherwise missing or open encryption gives HIGH; otherwise an SSID
\* that contains public, guest, hotel, airport, cafe or free in any case gives
\* MEDIUM; otherwise LOW; no association and a failed scan give MEDIUM.
C23_WifiPriorityOrder ==
    Assessed =>
       wifiSecurity.risk =
          IF ~Associated THEN "MEDIUM"
          ELSE LET current == env.wifi.conns[1] IN
               IF current.ssid \in Range(KNOWN_NETWORKS) THEN "SAFE"
               ELSE IF current.security \in {"", "Open"} THEN "HIGH"
               ELSE IF PublicPatternTest(current.ssid) THEN "MEDIUM"
               ELSE "LOW"

\* An open network with a hotspot name is HIGH, not MEDIUM
C23_Witness ==
    /\ Assessed
    /\ env.wifi = WifiScan(FALSE, <<[ssid |-> <<"H","O","T","E","L">>, security |-> "Open"]>>)
    /\ wifiSecurity.risk = "HIGH"

\* C24: the location verdict is HIGH with the location attached when the
\* address resolves to a country of the high-risk list, LOW with the location
\* attached when it resolves to any other country, and MEDIUM without a
\* location when the address does not resolve or the lookup fails.
C24_LocationVerdict ==
    Assessed =>
       LET geo == GeoLookup(getPublicIP(env.ip)) IN
       IF geo \in {NoGeo, GeoError}
       THEN locationSecurity.risk = "MEDIUM" /\ locationSecurity.location = NoGeo
       ELSE IF geo.country \in {"CN", "RU", "IR", "SA", "VN", "CU"}
       THEN locationSecurity.risk = "HIGH" /\ locationSecurity.location = geo
       ELSE locationSecurity.risk = "LOW" /\ locationSecurity.location = geo

C24_Witness ==
    /\ Assessed
    /\ env.ip = "203.0.113.7"
    /\ locationSecurity.risk = "HIGH"
    /\ locationSecurity.location.country = "RU"


-----------------------------------------------------------------------------
(* Properties of the countdown as a whole *)

\* C25: in every reachable state 0 <= elapsed <= totalSeconds: the countdown
\* never counts past the configured duration, also when ticks go on after a
\* disconnect was requested and its deactivate is still in flight.
C25_ElapsedWithinDuration ==
    /\ 0 <= elapsed
    /\ elapsed <= totalSeconds
    /\ connectionStats.totalConnections = 1 => totalSeconds = 60 * leaseTime.n

\* 'd' was pressed, the timer went on to the end of the lease and issued its
\* own deactivate, and the deactivate of 'd' has not returned yet
C25_Witness ==
    /\ pc = "connected"
    /\ TeardownCalls = <<DriverCall("down", "d"), DriverCall("down", "timer")>>
    /\ BagIn(Running("down", "d"), cmds)
    /\ elapsed = totalSeconds
    /\ totalSeconds = 60


-----------------------------------------------------------------------------
(* Properties of the region sent to the validator *)

\* C26: on every resolution path (bucket with a hit, bucket with fallback,
\* interactive choice, quiet default) and for every catalog in use, the empty
\* one included, the region sent in the config request (the geo parameter) is
\* an element of that catalog.
C26_RegionSentInCatalog ==
    "config" \in Range(netLog) => selectedRegion \in Range(availableRegions)


-----------------------------------------------------------------------------
(* Termination *)

\* A deactivate call was issued after the activation
DeactivateIssued ==
    \E i \in DOMAIN TeardownCalls : TeardownCalls[i].cmd = "down"

\* C27: once a session is CONNECTED, with a timer that keeps ticking and driver
\* commands that all return, the process eventually exits with a deactivate
\* call issued, if no key is ever pressed and whatever keys are pressed.
C27_ConnectedLeadsToExit ==
    (pc = "connected") ~> (pc = "exited" /\ DeactivateIssued)

\* The lease ran out with no key pressed and the process has exited
C27_Witness ==
    /\ pc = "exited"
    /\ keys = 0
    /\ exitVia.cmd = "down"
    /\ exitVia.src = "timer"
    /\ DeactivateIssued

=============================================================================
